---- MODULE Spec2Model ----
(***************************************************************************)
(* A model of snippet_uiautomator/uiobject2.py: the UiObject2 element      *)
(* handle, its navigation methods and queries, and the action builders     *)
(* (_Click, _Drag, _Gesture, _Pinch, _Scroll, _Wait) that validate their   *)
(* arguments and issue RPC calls on the remote automation service.         *)
(*                                                                         *)
(* Python objects live in a heap: a BySelector is a heap cell that several *)
(* handles and builders may reference, so that aliasing is visible.        *)
(* Every API call is one action; the remote service's answer to each RPC   *)
(* is an input of the action ("T", "F" or "X": true / a value, false /     *)
(* nothing, or a failure of the transport raised by the RPC itself).       *)
(***************************************************************************)
EXTENDS Integers, Sequences, FiniteSets, TLC

VARIABLES
  heap,     \* the BySelector objects: heap[id] is the step sequence of one
  handles,  \* the UiObject2 objects: [selector: heap id, raise_error]
  ctor,     \* ghost: what each UiObject2 was constructed with (by value)
  builder,  \* the action builder last obtained from a handle
  to,       \* the directional sub-builder (_Gesture._To, _Scroll._To)
  calls,    \* the RPC calls issued by the last operation, in order
  last      \* the last operation: its name, arguments and outcome

vars == <<heap, handles, ctor, builder, to, calls, last>>

(***************************************************************************)
(* Bounds of the model.                                                    *)
(***************************************************************************)
\* How many UiObject2 handles a run of navigation calls creates at most (the
\* root included).
MaxHandles == 4
\* The same where navigation is mixed with queries and builder accesses.
MaxQueryHandles == 2

\* How many handles a run has at most where the raise flag is followed down a
\* chain: the root, a handle derived from it and one derived from that.
MaxStrictHandles == 3

(***************************************************************************)
(* Python values.  Optional[T] is <<>> (None) or <<v>>.  A **kwargs        *)
(* mapping is a set of <<key, value>> pairs; the empty set is falsy.       *)
(***************************************************************************)
None == <<>>
Some(v) == <<v>>
IsNone(o) == o = <<>>
Val(o) == o[1]

\* A time value as callers give it (utils.TimeUnit): a bare int is a count
\* of milliseconds, a datetime.timedelta is given here in whole seconds.
Ms(n) == [unit |-> "ms", n |-> n]
Sec(n) == [unit |-> "s", n |-> n]

(***************************************************************************)
(* utils, constants, errors, byselector: modules of the package that the   *)
(* handle layer imports; they are described by the specification only.     *)
(***************************************************************************)
\* utils.covert_to_millisecond: normalise a time value to whole milliseconds.
covert_to_millisecond(t) == IF t.unit = "s" THEN t.n * 1000 ELSE t.n

\* constants.DEFAULT_SNIPPET_RPC_TIMEOUT, in seconds (a timedelta).
DEFAULT_SNIPPET_RPC_TIMEOUT == 60

ERROR_MSG_FOR_LONG_TIMEOUT == <<"Timeout is longer than the RPC timeout">>

\* byselector.BySelector(**kwargs): the first step holds the "by" criteria.
BySelector(kwargs) == <<[tag |-> "by", criteria |-> kwargs]>>

\* BySelector.append(tag, **kwargs) on the step sequence of one object.
append(steps, tag, kwargs) == Append(steps, [tag |-> tag, criteria |-> kwargs])

\* BySelector.to_dict(): the steps in order, each as a <<tag, criteria>> pair.
to_dict(steps) == [i \in 1..Len(steps) |-> <<steps[i].tag, steps[i].criteria>>]

\* BySelector.copy(): a new object with the same steps; the result is the
\* heap with the new object and the new object's id.
copy(hp, id) == [heap |-> Append(hp, hp[id]), id |-> Len(hp) + 1]

(***************************************************************************)
(* Outcomes of an operation and RPC calls.                                 *)
(***************************************************************************)
NoCause == [error |-> "", msg |-> <<>>]
Return(v) == [kind |-> "return", value |-> Some(v), error |-> "", msg |-> <<>>,
              cause |-> NoCause]
ReturnNone == [kind |-> "return", value |-> None, error |-> "", msg |-> <<>>,
               cause |-> NoCause]
Raise(e, m) == [kind |-> "raise", value |-> None, error |-> e, msg |-> m,
                cause |-> NoCause]
RaiseFrom(e, m, c) == [kind |-> "raise", value |-> None, error |-> e, msg |-> m,
                       cause |-> [error |-> c.error, msg |-> c.msg]]
\* What an RPC raises when the transport fails: none of this layer's errors.
TransportError == Raise("TransportError", <<"rpc failed">>)

Call(method, args) == [method |-> method, args |-> args]

\* A boolean RPC's answer as the Python value it returns.
AsBool(resp) == resp = "T"

\* The result of a handler: the RPC calls it issued and its outcome.
Result(cs, out) == [calls |-> cs, out |-> out]

\* self._ui.<method>(*args) returning the service's answer unchanged.
PassThrough(method, args, resp) ==
  IF resp = "X" THEN Result(<<Call(method, args)>>, TransportError)
  ELSE Result(<<Call(method, args)>>, Return(AsBool(resp)))

(***************************************************************************)
(* Inputs.                                                                 *)
(***************************************************************************)
\* The remote service's answer to one RPC.
Resp == {"T", "F", "X"}

\* Search criteria given as **kwargs.
Criteria == { {}, {<<"text", "OK">>} }

\* The selectors a root handle is created with (by the factory outside).
RootSelectors == { BySelector({<<"res", "list">>}),
                   append(BySelector({<<"res", "list">>}), "child", {<<"text", "OK">>}) }

\* The selector of the handle that scrolls are given as their target.
TargetSelector == BySelector({<<"text", "Target">>})

\* Caller-supplied assertion messages.
Messages == { <<"custom message">> }

(***************************************************************************)
(* class UiObject2                                                         *)
(***************************************************************************)
\* UiObject2.__init__
UiObject2(selector, raise_error) == [selector |-> selector, raise_error |-> raise_error]

\* A plausible slip: the new handle shares the selector object (no copy).
create_instance_alias(hp, h, tag, kwargs) ==
  [heap |-> [hp EXCEPT ![h.selector] = append(@, tag, kwargs)],
   obj |-> UiObject2(h.selector, h.raise_error)]

\* A plausible slip: the new handle is built with the default raise flag.
create_instance_default_flag(hp, h, tag, kwargs) ==
  LET c == copy(hp, h.selector)
  IN [heap |-> [c.heap EXCEPT ![c.id] = append(@, tag, kwargs)],
      obj |-> UiObject2(c.id, FALSE)]

\* UiObject2._create_instance: copy the selector, append the step to the
\* copy, wrap it in a new handle with the same raise flag.
create_instance(hp, h, tag, kwargs) ==
  LET c == copy(hp, h.selector)
  IN [heap |-> [c.heap EXCEPT ![c.id] = append(@, tag, kwargs)],
      obj |-> UiObject2(c.id, h.raise_error)]

NoBuilder == [kind |-> "none", selector |-> 0, raise_error |-> FALSE, action |-> "",
              margin |-> None, percent |-> None, rpc_timeout_ms |-> 0]
NoTo == [kind |-> "none", selector |-> 0, action |-> "", direction |-> "",
         margin |-> None, percent |-> None]

Op(name, h, args, out) == [op |-> name, h |-> h, args |-> args, out |-> out]

\* The UiObject2 given as the target of a scroll: a handle of the caller's
\* over its own selector object (heap[2]), which no operation here is made on.
TargetHandle == UiObject2(2, FALSE)

\* After construction: one root handle from the factory, with either flag,
\* and the selector object of the scroll target.
Init ==
  /\ \E s \in RootSelectors, f \in BOOLEAN :
       /\ heap = <<s, TargetSelector>>
       /\ handles = <<UiObject2(1, f)>>
       /\ ctor = <<[selector |-> s, raise_error |-> f]>>
  /\ builder = NoBuilder
  /\ to = NoTo
  /\ calls = <<>>
  /\ last = Op("init", 0, <<>>, ReturnNone)

\* One navigation call on handle i, while fewer than max handles exist: the
\* new handle joins the handles.
Navigate(i, tag, kwargs, max) ==
  /\ Len(handles) < max
  /\ LET r == create_instance(heap, handles[i], tag, kwargs)
     IN /\ heap' = r.heap
        /\ handles' = Append(handles, r.obj)
        /\ ctor' = Append(ctor, [selector |-> r.heap[r.obj.selector],
                                 raise_error |-> r.obj.raise_error])
        /\ last' = Op(tag, i, [tag |-> tag, kwargs |-> kwargs,
                               new |-> Len(handles) + 1], ReturnNone)
  /\ calls' = <<>>
  /\ UNCHANGED <<builder, to>>

\* The criteria given to the navigation methods.
NavCriteria == { {<<"text", "OK">>} }

\* UiObject2.parent (a property: no criteria)
parent == \E i \in DOMAIN handles : Navigate(i, "parent", {}, MaxHandles)
ancestor == \E i \in DOMAIN handles, kw \in NavCriteria : Navigate(i, "ancestor", kw, MaxHandles)
child == \E i \in DOMAIN handles, kw \in NavCriteria : Navigate(i, "child", kw, MaxHandles)
sibling == \E i \in DOMAIN handles, kw \in NavCriteria : Navigate(i, "sibling", kw, MaxHandles)
bottom == \E i \in DOMAIN handles, kw \in NavCriteria : Navigate(i, "bottom", kw, MaxHandles)
left == \E i \in DOMAIN handles, kw \in NavCriteria : Navigate(i, "left", kw, MaxHandles)
right == \E i \in DOMAIN handles, kw \in NavCriteria : Navigate(i, "right", kw, MaxHandles)
top == \E i \in DOMAIN handles, kw \in NavCriteria : Navigate(i, "top", kw, MaxHandles)

\* The relation tags of the navigation methods.
Tags == { "parent", "ancestor", "child", "sibling", "bottom", "left", "right", "top" }

\* Any one navigation call, where handles are also queried.
DoNavigate ==
  \E i \in DOMAIN handles, tag \in Tags :
    Navigate(i, tag, IF tag = "parent" THEN {} ELSE CHOOSE kw \in NavCriteria : TRUE,
             MaxQueryHandles)

\* Any one navigation call, in runs that follow the raise flag down a chain
\* of derived handles.
DoNavigateChain ==
  \E i \in DOMAIN handles, tag \in Tags :
    Navigate(i, tag, IF tag = "parent" THEN {} ELSE CHOOSE kw \in NavCriteria : TRUE,
             MaxStrictHandles)

\* self._selector.to_dict() of a handle or a builder
SelectorDict(obj) == to_dict(heap[obj.selector])

\* The properties and methods that pass one RPC's answer through:
\* <<name in UiObject2, RPC method>>.
Getters == { <<"clear_text", "clear">>, <<"long_click", "longClick">>,
             <<"children", "getChildren">>, <<"info", "getObjInfo">>,
             <<"display_id", "getDisplayId">>, <<"class_name", "getClassName">>,
             <<"description", "getContentDescription">>, <<"hint", "getHint">>,
             <<"package_name", "getApplicationPackage">>,
             <<"resource_id", "getResourceName">>, <<"text", "getText">>,
             <<"checkable", "isCheckable">>, <<"checked", "isChecked">>,
             <<"clickable", "isClickable">>, <<"enabled", "isEnabled">>,
             <<"focusable", "isFocusable">>, <<"focused", "isFocused">>,
             <<"long_clickable", "isLongClickable">>,
             <<"scrollable", "isScrollable">>, <<"selected", "isSelected">> }

\* UiObject2.<getter>: one RPC on the handle's selector, its answer returned.
UiObject2_get(h, method, resp) == PassThrough(method, <<SelectorDict(h)>>, resp)

\* UiObject2.find / UiObject2.has: the handle's selector and a fresh one.
UiObject2_find(h, method, kwargs, resp) ==
  PassThrough(method, <<SelectorDict(h), to_dict(BySelector(kwargs))>>, resp)

\* UiObject2.set_text
UiObject2_set_text(h, text, resp) ==
  PassThrough("setText", <<SelectorDict(h), text>>, resp)

\* UiObject2.count: the length of the list findObjects returns ("T": one
\* object, "F": none).
UiObject2_count(h, resp) ==
  IF resp = "X" THEN Result(<<Call("findObjects", <<SelectorDict(h)>>)>>, TransportError)
  ELSE Result(<<Call("findObjects", <<SelectorDict(h)>>)>>,
              Return(IF resp = "T" THEN 1 ELSE 0))

\* UiObject2.visible_bounds / visible_center: constants.Rect(**rect); a
\* service that answers nothing makes the ** unpacking raise TypeError.
UiObject2_visible(h, method, resp) ==
  IF resp = "X" THEN Result(<<Call(method, <<SelectorDict(h)>>)>>, TransportError)
  ELSE IF resp = "F"
  THEN Result(<<Call(method, <<SelectorDict(h)>>)>>,
              Raise("TypeError", <<"argument after ** must be a mapping">>))
  ELSE Result(<<Call(method, <<SelectorDict(h)>>)>>, Return(TRUE))

\* A plausible slip: the exists query raises whatever the flag is.
UiObject2_exists_always(h, resp) ==
  IF resp = "X" THEN Result(<<Call("exists", <<SelectorDict(h)>>)>>, TransportError)
  ELSE IF ~AsBool(resp)
  THEN Result(<<Call("exists", <<SelectorDict(h)>>)>>,
              Raise("UiObjectSearchError", <<"Not found Selector", SelectorDict(h)>>))
  ELSE Result(<<Call("exists", <<SelectorDict(h)>>)>>, Return(AsBool(resp)))

\* UiObject2.exists
UiObject2_exists(h, resp) ==
  IF resp = "X" THEN Result(<<Call("exists", <<SelectorDict(h)>>)>>, TransportError)
  ELSE IF ~AsBool(resp) /\ h.raise_error
  THEN Result(<<Call("exists", <<SelectorDict(h)>>)>>,
              Raise("UiObjectSearchError", <<"Not found Selector", SelectorDict(h)>>))
  ELSE Result(<<Call("exists", <<SelectorDict(h)>>)>>, Return(AsBool(resp)))

\* A plausible slip: the flag is restored after the try block, not in a
\* finally clause, so an exception leaves it set.
UiObject2_assert_exists_no_finally(h, error_msg, resp) ==
  LET h1 == [h EXCEPT !.raise_error = TRUE]
      r == UiObject2_exists(h1, resp)
  IN IF r.out.kind = "raise" /\ r.out.error = "UiObjectSearchError"
     THEN [calls |-> r.calls, obj |-> h1,
           out |-> RaiseFrom("UiObjectSearchError", error_msg, r.out)]
     ELSE IF r.out.kind = "raise"
     THEN [calls |-> r.calls, out |-> r.out, obj |-> h1]
     ELSE [calls |-> r.calls, out |-> ReturnNone, obj |-> h]

\* UiObject2.assert_exists: save the flag, set it, evaluate exists, re-raise
\* an object-search error with the caller's message, restore the flag in the
\* finally clause.  obj is the handle as the call leaves it.
UiObject2_assert_exists(h, error_msg, resp) ==
  LET current_raise_error == h.raise_error
      h1 == [h EXCEPT !.raise_error = TRUE]
      r == UiObject2_exists(h1, resp)
      restored == [h1 EXCEPT !.raise_error = current_raise_error]
  IN IF r.out.kind = "raise" /\ r.out.error = "UiObjectSearchError"
     THEN [calls |-> r.calls, obj |-> restored,
           out |-> RaiseFrom("UiObjectSearchError", error_msg, r.out)]
     ELSE IF r.out.kind = "raise"
     THEN [calls |-> r.calls, out |-> r.out, obj |-> restored]
     ELSE [calls |-> r.calls, out |-> ReturnNone, obj |-> restored]

\* An operation on handle i that changes no object of this layer.
Query(name, i, args, r) ==
  /\ calls' = r.calls
  /\ last' = Op(name, i, args, r.out)
  /\ UNCHANGED <<heap, handles, ctor, builder, to>>

DoGet ==
  \E i \in DOMAIN handles, g \in Getters, resp \in Resp :
    Query(g[1], i, [resp |-> resp], UiObject2_get(handles[i], g[2], resp))

DoFind ==
  \E i \in DOMAIN handles, kw \in Criteria, resp \in Resp :
    Query("find", i, [kwargs |-> kw, resp |-> resp],
          UiObject2_find(handles[i], "findChildObjects", kw, resp))

DoHas ==
  \E i \in DOMAIN handles, kw \in Criteria, resp \in Resp :
    Query("has", i, [kwargs |-> kw, resp |-> resp],
          UiObject2_find(handles[i], "hasChildObject", kw, resp))

DoSetText ==
  \E i \in DOMAIN handles, resp \in Resp :
    Query("set_text", i, [text |-> "abc", resp |-> resp],
          UiObject2_set_text(handles[i], "abc", resp))

DoCount ==
  \E i \in DOMAIN handles, resp \in Resp :
    Query("count", i, [resp |-> resp], UiObject2_count(handles[i], resp))

DoVisibleBounds ==
  \E i \in DOMAIN handles, resp \in Resp :
    Query("visible_bounds", i, [resp |-> resp],
          UiObject2_visible(handles[i], "getVisibleBounds", resp))

DoVisibleCenter ==
  \E i \in DOMAIN handles, resp \in Resp :
    Query("visible_center", i, [resp |-> resp],
          UiObject2_visible(handles[i], "getVisibleCenter", resp))

DoExists ==
  \E i \in DOMAIN handles, resp \in Resp :
    Query("exists", i, [resp |-> resp], UiObject2_exists(handles[i], resp))

DoAssertExists ==
  \E i \in DOMAIN handles, m \in Messages, resp \in Resp :
    LET r == UiObject2_assert_exists(handles[i], m, resp)
    IN /\ handles' = [handles EXCEPT ![i] = r.obj]
       /\ calls' = r.calls
       /\ last' = Op("assert_exists", i, [error_msg |-> m, resp |-> resp], r.out)
       /\ UNCHANGED <<heap, ctor, builder, to>>

(***************************************************************************)
(* More inputs.                                                            *)
(***************************************************************************)
RpcTimeoutMs == covert_to_millisecond(Sec(DEFAULT_SNIPPET_RPC_TIMEOUT))

\* Time values around the RPC timeout, in both units.
Timeouts == { Ms(0), Ms(RpcTimeoutMs - 1), Ms(RpcTimeoutMs), Sec(1),
              Sec(DEFAULT_SNIPPET_RPC_TIMEOUT), Sec(DEFAULT_SNIPPET_RPC_TIMEOUT + 1) }

\* Click-hold times: none, short ones in both units, and one past the RPC timeout.
Durations == { None, Some(Ms(500)), Some(Sec(2)), Some(Sec(DEFAULT_SNIPPET_RPC_TIMEOUT)) }

Xs == { None, Some(5) }
Ys == { None, Some(10) }
Speeds == { None, Some(1000) }

\* What getVisibleBounds answers with when the element is there.
Bounds == [left |-> 1, top |-> 2, right |-> 3, bottom |-> 4]

(***************************************************************************)
(* class _Click                                                            *)
(***************************************************************************)
\* _Click.__init__
Click_init(selector) ==
  [NoBuilder EXCEPT !.kind = "click", !.selector = selector,
                    !.rpc_timeout_ms = covert_to_millisecond(Sec(DEFAULT_SNIPPET_RPC_TIMEOUT))]

\* A plausible slip: duration wins over the deprecated timeout.
Click_hold_duration_first(duration, timeout) ==
  IF duration # None THEN duration ELSE timeout

\* _Click.__call__, lines 71-77: the deprecated timeout replaces duration.
Click_hold(duration, timeout) ==
  IF timeout # None THEN timeout ELSE duration

\* A plausible slip: a point click as soon as one coordinate is given.
Click_call_either(b, duration, timeout, x, y, resp) ==
  LET d == Click_hold(duration, timeout)
      duration_ms == IF d = None THEN None ELSE Some(covert_to_millisecond(Val(d)))
  IN IF x # None \/ y # None
     THEN PassThrough("clickObjPoint",
                      <<SelectorDict(b), IF x = None THEN 0 ELSE Val(x),
                        IF y = None THEN 0 ELSE Val(y), duration_ms>>, resp)
     ELSE PassThrough("clickObj", <<SelectorDict(b), duration_ms>>, resp)

\* _Click.__call__
Click_call(b, duration, timeout, x, y, resp) ==
  LET d == Click_hold(duration, timeout)
      duration_ms == IF d = None THEN None ELSE Some(covert_to_millisecond(Val(d)))
  IN IF x # None /\ y # None
     THEN PassThrough("clickObjPoint", <<SelectorDict(b), Val(x), Val(y), duration_ms>>, resp)
     ELSE IF x = None /\ y = None
     THEN PassThrough("clickObj", <<SelectorDict(b), duration_ms>>, resp)
     ELSE Result(<<>>, Raise("ApiError", <<"Must provide both x and y to click on point">>))

\* _Click.bottomright / _Click.topleft: the bounds, then a click on a corner
\* (h, v name the corner's fields of the bounds).
Click_corner(b, h, v, resp, resp2) ==
  LET c1 == Call("getVisibleBounds", <<SelectorDict(b)>>)
  IN IF resp = "X" THEN Result(<<c1>>, TransportError)
     ELSE IF resp = "F" THEN Result(<<c1>>, Return(FALSE))
     ELSE LET r == PassThrough("click", <<Bounds[h], Bounds[v]>>, resp2)
          IN Result(<<c1>> \o r.calls, r.out)

\* A plausible slip: the two coordinates of the corner in the other order.
Click_bottomright_swapped(b, resp, resp2) == Click_corner(b, "bottom", "right", resp, resp2)

\* _Click.bottomright
Click_bottomright(b, resp, resp2) == Click_corner(b, "right", "bottom", resp, resp2)

\* _Click.topleft
Click_topleft(b, resp, resp2) == Click_corner(b, "left", "top", resp, resp2)

\* A plausible slip: the guard compares with > instead of >=.
TimeoutGuard_gt(timeout_ms, rpc_timeout_ms) == timeout_ms > rpc_timeout_ms

\* The check of lines 119, 533, 560 and 604: TRUE when the call is rejected.
TimeoutGuard(timeout_ms, rpc_timeout_ms) == timeout_ms >= rpc_timeout_ms

\* _Click.wait
Click_wait(b, timeout, resp) ==
  LET timeout_ms == covert_to_millisecond(timeout)
  IN IF TimeoutGuard(timeout_ms, b.rpc_timeout_ms)
     THEN Result(<<>>, Raise("ApiError", ERROR_MSG_FOR_LONG_TIMEOUT))
     ELSE PassThrough("clickObjAndWait", <<SelectorDict(b), timeout_ms>>, resp)

\* UiObject2.click (the property)
AccessClick ==
  \E i \in DOMAIN handles :
    /\ builder' = Click_init(handles[i].selector)
    /\ calls' = <<>>
    /\ last' = Op("click", i, <<>>, ReturnNone)
    /\ UNCHANGED <<heap, handles, ctor, to>>

\* An operation of the current builder that leaves every object as it is.
BuilderOp(name, args, r) ==
  /\ calls' = r.calls
  /\ last' = Op(name, 0, args, r.out)
  /\ UNCHANGED <<heap, handles, ctor, builder, to>>

DoClick ==
  /\ builder.kind = "click"
  /\ \E d \in Durations, t \in Durations, x \in Xs, y \in Ys, resp \in Resp :
       BuilderOp("Click.__call__",
                 [duration |-> d, timeout |-> t, x |-> x, y |-> y, resp |-> resp,
                  warned |-> t # None],
                 Click_call(builder, d, t, x, y, resp))

DoClickBottomright ==
  /\ builder.kind = "click"
  /\ \E resp \in Resp, resp2 \in Resp :
       BuilderOp("Click.bottomright", [resp |-> resp, resp2 |-> resp2],
                 Click_bottomright(builder, resp, resp2))

DoClickTopleft ==
  /\ builder.kind = "click"
  /\ \E resp \in Resp, resp2 \in Resp :
       BuilderOp("Click.topleft", [resp |-> resp, resp2 |-> resp2],
                 Click_topleft(builder, resp, resp2))

DoClickWait ==
  /\ builder.kind = "click"
  /\ \E t \in Timeouts, resp \in Resp :
       BuilderOp("Click.wait", [timeout |-> t, resp |-> resp],
                 Click_wait(builder, t, resp))

(***************************************************************************)
(* class _Wait                                                             *)
(***************************************************************************)
\* _Wait.__init__
Wait_init(selector, raise_error) ==
  [NoBuilder EXCEPT !.kind = "wait", !.selector = selector,
                    !.raise_error = raise_error,
                    !.rpc_timeout_ms = covert_to_millisecond(Sec(DEFAULT_SNIPPET_RPC_TIMEOUT))]

\* A plausible slip: only the per-call override is looked at.
Wait_strict_call_only(b, raise_error) == raise_error

\* The condition of lines 565 and 609: the sticky flag or the override.
Wait_strict(b, raise_error) == b.raise_error \/ raise_error

\* The body shared by _Wait.exists and _Wait.gone: the guard, one polling
\* RPC, then the answer, an object-search error or False.
Wait_poll(b, method, text, timeout, raise_error, resp) ==
  LET timeout_ms == covert_to_millisecond(timeout)
      c == Call(method, <<SelectorDict(b), timeout_ms>>)
  IN IF TimeoutGuard(timeout_ms, b.rpc_timeout_ms)
     THEN Result(<<>>, Raise("ApiError", ERROR_MSG_FOR_LONG_TIMEOUT))
     ELSE IF resp = "X" THEN Result(<<c>>, TransportError)
     ELSE IF AsBool(resp) THEN Result(<<c>>, Return(TRUE))
     ELSE IF Wait_strict(b, raise_error)
     THEN Result(<<c>>, Raise("UiObjectSearchError",
                              <<text, SelectorDict(b), "over", timeout_ms, "ms">>))
     ELSE Result(<<c>>, Return(FALSE))

\* _Wait.exists
Wait_exists(b, timeout, raise_error, resp) ==
  Wait_poll(b, "waitForExists", "Not found Selector", timeout, raise_error, resp)

\* _Wait.gone
Wait_gone(b, timeout, raise_error, resp) ==
  Wait_poll(b, "waitUntilGone", "Still found Selector", timeout, raise_error, resp)

\* A plausible slip: the original error is re-raised as it is.
Rewrap_original(r, error_msg) == r

\* The except clause of the assert wrappers (lines 580-581, 625-626): an
\* object-search error is raised again with the caller's message, from the
\* original; anything else passes; the wrappers return None.
Rewrap(r, error_msg) ==
  IF r.out.kind = "raise" /\ r.out.error = "UiObjectSearchError"
  THEN Result(r.calls, RaiseFrom("UiObjectSearchError", error_msg, r.out))
  ELSE IF r.out.kind = "raise" THEN r
  ELSE Result(r.calls, ReturnNone)

\* _Wait.assert_exists
Wait_assert_exists(b, error_msg, timeout, resp) ==
  Rewrap(Wait_exists(b, timeout, TRUE, resp), error_msg)

\* _Wait.assert_gone
Wait_assert_gone(b, error_msg, timeout, resp) ==
  Rewrap(Wait_gone(b, timeout, TRUE, resp), error_msg)

\* A plausible slip: like exists, a failed wait raises when the flag is set.
Wait_click_strict(b, timeout, resp, resp2) ==
  LET timeout_ms == covert_to_millisecond(timeout)
      c == Call("waitForExists", <<SelectorDict(b), timeout_ms>>)
  IN IF TimeoutGuard(timeout_ms, b.rpc_timeout_ms)
     THEN Result(<<>>, Raise("ApiError", ERROR_MSG_FOR_LONG_TIMEOUT))
     ELSE IF resp = "X" THEN Result(<<c>>, TransportError)
     ELSE IF AsBool(resp)
     THEN LET r == PassThrough("clickObj", <<SelectorDict(b)>>, resp2)
          IN Result(<<c>> \o r.calls, r.out)
     ELSE IF b.raise_error
     THEN Result(<<c>>, Raise("UiObjectSearchError",
                              <<"Not found Selector", SelectorDict(b), "over",
                                timeout_ms, "ms">>))
     ELSE Result(<<c>>, Return(FALSE))

\* _Wait.click
Wait_click(b, timeout, resp, resp2) ==
  LET timeout_ms == covert_to_millisecond(timeout)
      c == Call("waitForExists", <<SelectorDict(b), timeout_ms>>)
  IN IF TimeoutGuard(timeout_ms, b.rpc_timeout_ms)
     THEN Result(<<>>, Raise("ApiError", ERROR_MSG_FOR_LONG_TIMEOUT))
     ELSE IF resp = "X" THEN Result(<<c>>, TransportError)
     ELSE IF AsBool(resp)
     THEN LET r == PassThrough("clickObj", <<SelectorDict(b)>>, resp2)
          IN Result(<<c>> \o r.calls, r.out)
     ELSE Result(<<c>>, Return(FALSE))

\* UiObject2.wait (the property)
AccessWait ==
  \E i \in DOMAIN handles :
    /\ builder' = Wait_init(handles[i].selector, handles[i].raise_error)
    /\ calls' = <<>>
    /\ last' = Op("wait", i, <<>>, ReturnNone)
    /\ UNCHANGED <<heap, handles, ctor, to>>

DoWaitExists ==
  /\ builder.kind = "wait"
  /\ \E t \in Timeouts, re \in BOOLEAN, resp \in Resp :
       BuilderOp("Wait.exists", [timeout |-> t, raise_error |-> re, resp |-> resp],
                 Wait_exists(builder, t, re, resp))

DoWaitGone ==
  /\ builder.kind = "wait"
  /\ \E t \in Timeouts, re \in BOOLEAN, resp \in Resp :
       BuilderOp("Wait.gone", [timeout |-> t, raise_error |-> re, resp |-> resp],
                 Wait_gone(builder, t, re, resp))

DoWaitAssertExists ==
  /\ builder.kind = "wait"
  /\ \E m \in Messages, t \in Timeouts, resp \in Resp :
       BuilderOp("Wait.assert_exists", [error_msg |-> m, timeout |-> t, resp |-> resp],
                 Wait_assert_exists(builder, m, t, resp))

DoWaitAssertGone ==
  /\ builder.kind = "wait"
  /\ \E m \in Messages, t \in Timeouts, resp \in Resp :
       BuilderOp("Wait.assert_gone", [error_msg |-> m, timeout |-> t, resp |-> resp],
                 Wait_assert_gone(builder, m, t, resp))

DoWaitClick ==
  /\ builder.kind = "wait"
  /\ \E t \in Timeouts, resp \in Resp, resp2 \in Resp :
       BuilderOp("Wait.click", [timeout |-> t, resp |-> resp, resp2 |-> resp2],
                 Wait_click(builder, t, resp, resp2))

(***************************************************************************)
(* class _Drag                                                             *)
(***************************************************************************)
\* _Drag.__init__
Drag_init(selector) == [NoBuilder EXCEPT !.kind = "drag", !.selector = selector]

\* A plausible slip: the criteria win when coordinates are given as well.
Drag_to_criteria_first(b, x, y, speed, kwargs, resp) ==
  IF kwargs # {}
  THEN PassThrough("dragObjToObj",
                   <<SelectorDict(b), to_dict(BySelector(kwargs)), speed>>, resp)
  ELSE IF x # None /\ y # None
  THEN PassThrough("dragObj", <<SelectorDict(b), Val(x), Val(y), speed>>, resp)
  ELSE Result(<<>>, Raise("ApiError",
                          <<"Drag to object and drag to coordinates cannot be mixed">>))

\* _Drag.to
Drag_to(b, x, y, speed, kwargs, resp) ==
  IF x = None /\ y = None /\ kwargs # {}
  THEN PassThrough("dragObjToObj",
                   <<SelectorDict(b), to_dict(BySelector(kwargs)), speed>>, resp)
  ELSE IF x # None /\ y # None /\ kwargs = {}
  THEN PassThrough("dragObj", <<SelectorDict(b), Val(x), Val(y), speed>>, resp)
  ELSE Result(<<>>, Raise("ApiError",
                          <<"Drag to object and drag to coordinates cannot be mixed">>))

\* _Drag.__call__
Drag_call(b, x, y, speed, kwargs, resp) == Drag_to(b, x, y, speed, kwargs, resp)

\* UiObject2.drag (the property)
AccessDrag ==
  \E i \in DOMAIN handles :
    /\ builder' = Drag_init(handles[i].selector)
    /\ calls' = <<>>
    /\ last' = Op("drag", i, <<>>, ReturnNone)
    /\ UNCHANGED <<heap, handles, ctor, to>>

DoDragTo ==
  /\ builder.kind = "drag"
  /\ \E x \in Xs, y \in Ys, sp \in Speeds, kw \in Criteria, resp \in Resp :
       BuilderOp("Drag.to",
                 [x |-> x, y |-> y, speed |-> sp, kwargs |-> kw, resp |-> resp],
                 Drag_to(builder, x, y, sp, kw, resp))

DoDragCall ==
  /\ builder.kind = "drag"
  /\ \E x \in Xs, y \in Ys, sp \in Speeds, kw \in Criteria, resp \in Resp :
       BuilderOp("Drag.__call__",
                 [x |-> x, y |-> y, speed |-> sp, kwargs |-> kw, resp |-> resp],
                 Drag_call(builder, x, y, sp, kw, resp))

(***************************************************************************)
(* class _Pinch                                                            *)
(***************************************************************************)
\* _Pinch.__init__
Pinch_init(selector) == [NoBuilder EXCEPT !.kind = "pinch", !.selector = selector]

\* _Pinch.close
Pinch_close(b, percent, speed, resp) ==
  PassThrough("pinchClose", <<SelectorDict(b), percent, speed>>, resp)

\* _Pinch.open
Pinch_open(b, percent, speed, resp) ==
  PassThrough("pinchOpen", <<SelectorDict(b), percent, speed>>, resp)

\* UiObject2.pinch (the property)
AccessPinch ==
  \E i \in DOMAIN handles :
    /\ builder' = Pinch_init(handles[i].selector)
    /\ calls' = <<>>
    /\ last' = Op("pinch", i, <<>>, ReturnNone)
    /\ UNCHANGED <<heap, handles, ctor, to>>

(***************************************************************************)
(* classes _Gesture and _Scroll: the margin / percent configurator and the *)
(* four directional accessors are the same code in both.                   *)
(***************************************************************************)
\* The margins a configurator call is given.
Margins == { None, Some(10) }
\* The percentages a configurator call is given.
MarginPercents == { None, Some(20) }
\* The percent argument of a gesture or a scroll.
Percents == { -1, 0, 50, 100, 101 }
Directions == { "DOWN", "LEFT", "RIGHT", "UP" }

\* _Gesture.__init__
Gesture_init(selector, action) ==
  [NoBuilder EXCEPT !.kind = "gesture", !.selector = selector, !.action = action]

\* _Scroll.__init__
Scroll_init(selector) == [NoBuilder EXCEPT !.kind = "scroll", !.selector = selector]

\* A plausible slip: no check that margin and percent are not both given.
Configure_unchecked(b, margin, percent) ==
  [obj |-> [b EXCEPT !.margin = margin, !.percent = percent], out |-> ReturnNone]

\* _Gesture.__call__ / _Scroll.__call__: obj is the builder after the call
\* (which the call returns), out the outcome.
Configure(b, margin, percent) ==
  IF margin # None /\ percent # None
  THEN [obj |-> b,
        out |-> Raise("ApiError",
                      <<"Pixel-based and percentage-based margin cannot be mixed">>)]
  ELSE [obj |-> [b EXCEPT !.margin = margin, !.percent = percent], out |-> ReturnNone]

\* _Gesture._To.__init__
GestureTo_init(selector, action, direction, margin, percent) ==
  [kind |-> "gesture", selector |-> selector, action |-> action,
   direction |-> direction, margin |-> margin, percent |-> percent]

\* _Scroll._To.__init__
ScrollTo_init(selector, direction, margin, percent) ==
  [kind |-> "scroll", selector |-> selector, action |-> "",
   direction |-> direction, margin |-> margin, percent |-> percent]

\* _Gesture.down / left / right / up and _Scroll.down / left / right / up
Direction(b, direction) ==
  IF b.kind = "gesture"
  THEN GestureTo_init(b.selector, b.action, direction, b.margin, b.percent)
  ELSE ScrollTo_init(b.selector, direction, b.margin, b.percent)

\* A plausible slip: fling accepts any percent, swipe any up to 100.
GestureTo_call_lax(t, percent, speed, resp) ==
  IF t.action = "fling"
  THEN PassThrough("fling", <<SelectorDict(t), t.direction, speed, t.margin, t.percent>>,
                   resp)
  ELSE IF ~(percent <= 100)
  THEN Result(<<>>, Raise("ApiError",
                          <<"swipe gesture requires percent to be between 0 and 100">>))
  ELSE PassThrough("swipeObj",
                   <<SelectorDict(t), t.direction, percent, speed, t.margin, t.percent>>,
                   resp)

\* _Gesture._To.__call__
GestureTo_call(t, percent, speed, resp) ==
  IF t.action = "fling"
  THEN IF percent # 0
       THEN Result(<<>>, Raise("ApiError",
                               <<"fling gesture does not support changing the percent">>))
       ELSE PassThrough("fling",
                        <<SelectorDict(t), t.direction, speed, t.margin, t.percent>>, resp)
  ELSE IF t.action = "swipe"
  THEN IF ~(0 <= percent /\ percent <= 100)
       THEN Result(<<>>, Raise("ApiError",
                               <<"swipe gesture requires percent to be between 0 and 100">>))
       ELSE PassThrough("swipeObj",
                        <<SelectorDict(t), t.direction, percent, speed, t.margin, t.percent>>,
                        resp)
  ELSE Result(<<>>, Raise("ApiError", <<"Unknown gesture action", t.action>>))

\* A plausible slip: the percent shape is taken whatever else is given.
ScrollTo_call_percent_first(t, percent, speed, target, kwargs, resp) ==
  IF percent # None
  THEN PassThrough("scroll",
                   <<SelectorDict(t), t.direction, Val(percent), speed, t.margin, t.percent>>,
                   resp)
  ELSE IF speed = None /\ target = None /\ kwargs # {}
  THEN PassThrough("scrollUntil",
                   <<SelectorDict(t), kwargs, t.direction, t.margin, t.percent>>, resp)
  ELSE IF speed = None /\ target = None /\ kwargs = {}
  THEN PassThrough("scrollUntilFinished",
                   <<SelectorDict(t), t.direction, t.margin, t.percent>>, resp)
  ELSE IF speed = None /\ target # None /\ kwargs = {}
  THEN PassThrough("scrollUntil",
                   <<SelectorDict(t), SelectorDict(Val(target)), t.direction,
                     t.margin, t.percent>>, resp)
  ELSE Result(<<>>, Raise("ApiError",
                          <<"Scroll by percentage and scroll by condition cannot be mixed">>))

\* _Scroll._To.__call__; target is None or a UiObject2.
ScrollTo_call(t, percent, speed, target, kwargs, resp) ==
  IF percent # None /\ target = None /\ kwargs = {}
  THEN PassThrough("scroll",
                   <<SelectorDict(t), t.direction, Val(percent), speed, t.margin, t.percent>>,
                   resp)
  ELSE IF percent = None /\ speed = None /\ target = None /\ kwargs # {}
  THEN PassThrough("scrollUntil",
                   <<SelectorDict(t), kwargs, t.direction, t.margin, t.percent>>, resp)
  ELSE IF percent = None /\ speed = None /\ target = None /\ kwargs = {}
  THEN PassThrough("scrollUntilFinished",
                   <<SelectorDict(t), t.direction, t.margin, t.percent>>, resp)
  ELSE IF percent = None /\ speed = None /\ target # None /\ kwargs = {}
  THEN PassThrough("scrollUntil",
                   <<SelectorDict(t), SelectorDict(Val(target)), t.direction,
                     t.margin, t.percent>>, resp)
  ELSE Result(<<>>, Raise("ApiError",
                          <<"Scroll by percentage and scroll by condition cannot be mixed">>))

\* Whether a keyword's value is Python's None.  Keyword values are of any
\* type, so the test is made on the printed form of the value.
IsNoneValue(v) == ToString(v) = ToString(None)

\* The value a keyword of **kwargs binds to a named parameter of the callee:
\* None when the keyword is given as None, and None (the parameter's
\* default) when no keyword has that name.
KeywordArg(kwargs, name) ==
  IF \E p \in kwargs : p[1] = name
  THEN LET v == (CHOOSE p \in kwargs : p[1] = name)[2]
       IN IF IsNoneValue(v) THEN None ELSE Some(v)
  ELSE None

\* The keywords left for the callee's own **kwargs.
RestKwargs(kwargs, names) == { p \in kwargs : p[1] \notin names }

\* _Scroll._To.click: self(**kwargs), then clickObj(kwargs) if it is truthy.
\* Keywords named percent, speed or target bind to __call__'s parameters of
\* those names; the others are its search criteria.
ScrollTo_click(t, kwargs, resp, resp2) ==
  IF kwargs = {}
  THEN Result(<<>>, Raise("ApiError", <<"Target to scroll to is not defined">>))
  ELSE LET r == ScrollTo_call(t, KeywordArg(kwargs, "percent"),
                              KeywordArg(kwargs, "speed"),
                              KeywordArg(kwargs, "target"),
                              RestKwargs(kwargs, {"percent", "speed", "target"}),
                              resp)
       IN IF r.out.kind = "raise" THEN r
          ELSE IF r.out.value = Some(TRUE)
          THEN LET r2 == PassThrough("clickObj", <<kwargs>>, resp2)
               IN Result(r.calls \o r2.calls, r2.out)
          ELSE Result(r.calls, Return(FALSE))

\* UiObject2.fling (the property)
AccessFling ==
  \E i \in DOMAIN handles :
    /\ builder' = Gesture_init(handles[i].selector, "fling")
    /\ calls' = <<>>
    /\ last' = Op("fling", i, <<>>, ReturnNone)
    /\ UNCHANGED <<heap, handles, ctor, to>>

\* UiObject2.swipe (the property)
AccessSwipe ==
  \E i \in DOMAIN handles :
    /\ builder' = Gesture_init(handles[i].selector, "swipe")
    /\ calls' = <<>>
    /\ last' = Op("swipe", i, <<>>, ReturnNone)
    /\ UNCHANGED <<heap, handles, ctor, to>>

\* UiObject2.scroll (the property)
AccessScroll ==
  \E i \in DOMAIN handles :
    /\ builder' = Scroll_init(handles[i].selector)
    /\ calls' = <<>>
    /\ last' = Op("scroll", i, <<>>, ReturnNone)
    /\ UNCHANGED <<heap, handles, ctor, to>>

\* The configurator call on the current _Gesture or _Scroll builder.
DoConfigure(kind, name) ==
  /\ builder.kind = kind
  /\ \E m \in Margins, p \in MarginPercents :
       LET r == Configure(builder, m, p)
       IN /\ builder' = r.obj
          /\ calls' = <<>>
          /\ last' = Op(name, 0, [margin |-> m, percent |-> p], r.out)
  /\ UNCHANGED <<heap, handles, ctor, to>>

DoGestureConfigure == DoConfigure("gesture", "Gesture.__call__")
DoScrollConfigure == DoConfigure("scroll", "Scroll.__call__")

\* A directional accessor of the current _Gesture or _Scroll builder.
AccessDirection(kind, name) ==
  /\ builder.kind = kind
  /\ \E d \in Directions :
       /\ to' = Direction(builder, d)
       /\ last' = Op(name, 0, [direction |-> d], ReturnNone)
  /\ calls' = <<>>
  /\ UNCHANGED <<heap, handles, ctor, builder>>

AccessGestureDirection == AccessDirection("gesture", "Gesture.direction")
AccessScrollDirection == AccessDirection("scroll", "Scroll.direction")

DoGestureTo ==
  /\ to.kind = "gesture"
  /\ \E p \in Percents, sp \in Speeds, resp \in Resp :
       BuilderOp("Gesture._To.__call__", [percent |-> p, speed |-> sp, resp |-> resp],
                 GestureTo_call(to, p, sp, resp))

\* The target argument of a scroll: none or the target handle.
Targets == { None, Some(TargetHandle) }
\* The percent argument of a scroll.
ScrollPercents == { None, Some(0), Some(50) }

DoScrollTo ==
  /\ to.kind = "scroll"
  /\ \E p \in ScrollPercents, sp \in Speeds, tg \in Targets, kw \in Criteria,
        resp \in Resp :
       BuilderOp("Scroll._To.__call__",
                 [percent |-> p, speed |-> sp, target |-> tg, kwargs |-> kw,
                  resp |-> resp],
                 ScrollTo_call(to, p, sp, tg, kw, resp))

\* The keywords given to _Scroll._To.click: none, search criteria, and
\* keywords that carry the name of a parameter of _Scroll._To.__call__.
ClickCriteria ==
  Criteria \cup { {<<"percent", 50>>}, {<<"text", "OK">>, <<"speed", 1000>>},
                  {<<"text", "OK">>, <<"target", None>>} }

DoScrollToClick ==
  /\ to.kind = "scroll"
  /\ \E kw \in ClickCriteria, resp \in Resp, resp2 \in Resp :
       BuilderOp("Scroll._To.click", [kwargs |-> kw, resp |-> resp, resp2 |-> resp2],
                 ScrollTo_click(to, kw, resp, resp2))

DoPinchClose ==
  /\ builder.kind = "pinch"
  /\ \E p \in Percents, sp \in Speeds, resp \in Resp :
       BuilderOp("Pinch.close", [percent |-> p, speed |-> sp, resp |-> resp],
                 Pinch_close(builder, p, sp, resp))

DoPinchOpen ==
  /\ builder.kind = "pinch"
  /\ \E p \in Percents, sp \in Speeds, resp \in Resp :
       BuilderOp("Pinch.open", [percent |-> p, speed |-> sp, resp |-> resp],
                 Pinch_open(builder, p, sp, resp))

(***************************************************************************)
(* Specifications.                                                         *)
(***************************************************************************)
NextNav == parent \/ ancestor \/ child \/ sibling \/ bottom \/ left \/ right \/ top

\* Navigation alone.
SpecNav == Init /\ [][NextNav]_vars

NextHandle ==
  \/ DoNavigate
  \/ DoGet \/ DoFind \/ DoHas \/ DoSetText \/ DoCount \/ DoVisibleBounds
  \/ DoVisibleCenter \/ DoExists \/ DoAssertExists
  \/ AccessClick \/ AccessDrag \/ AccessFling \/ AccessSwipe \/ AccessPinch
  \/ AccessScroll \/ AccessWait

\* The handle: navigation, queries, builder accesses, assert_exists.
SpecHandle == Init /\ [][NextHandle]_vars

NextWait ==
  \/ AccessWait \/ DoWaitExists \/ DoWaitGone \/ DoWaitAssertExists
  \/ DoWaitAssertGone \/ DoWaitClick
  \/ AccessClick \/ DoClickWait
  \/ DoExists \/ DoAssertExists

\* The waits and asserts: the _Wait builder, _Click.wait, and the handle's
\* own exists and assert_exists.
SpecWait == Init /\ [][NextWait]_vars

NextClick == AccessClick \/ DoClick \/ DoClickBottomright \/ DoClickTopleft \/ DoClickWait

\* The _Click builder.
SpecClick == Init /\ [][NextClick]_vars

NextDrag == AccessDrag \/ DoDragTo \/ DoDragCall \/ AccessPinch \/ DoPinchClose \/ DoPinchOpen

\* The _Drag and _Pinch builders.
SpecDrag == Init /\ [][NextDrag]_vars

NextGesture ==
  \/ AccessFling \/ AccessSwipe \/ DoGestureConfigure \/ AccessGestureDirection
  \/ DoGestureTo
  \/ AccessScroll \/ DoScrollConfigure \/ AccessScrollDirection \/ DoScrollTo
  \/ DoScrollToClick

\* The _Gesture and _Scroll builders and their directional sub-builders.
SpecGesture == Init /\ [][NextGesture]_vars

NextStrict ==
  \/ DoNavigateChain \/ DoExists \/ DoAssertExists
  \/ AccessWait \/ DoWaitExists \/ DoWaitGone

\* Chains of derived handles, their exists queries and their _Wait builders.
SpecStrict == Init /\ [][NextStrict]_vars

(***************************************************************************)
(* The claims.                                                             *)
(***************************************************************************)
IsApiError(out) == out.kind = "raise" /\ out.error = "ApiError"
IsSearchError(out) == out.kind = "raise" /\ out.error = "UiObjectSearchError"

\* The polling RPC of each guarded operation.
GuardedRpc(op) ==
  CASE op = "Click.wait" -> "clickObjAndWait"
    [] op = "Wait.exists" -> "waitForExists"
    [] op = "Wait.gone" -> "waitUntilGone"
    [] op = "Wait.click" -> "waitForExists"
    [] op = "Wait.assert_exists" -> "waitForExists"
    [] op = "Wait.assert_gone" -> "waitUntilGone"

\* C1: Click.wait, Wait.exists, Wait.gone and Wait.click reject a timeout
\* that is, in milliseconds, at or above the RPC timeout with an ApiError and
\* no RPC call; below it they are not rejected and their first RPC call is
\* the operation's polling call, carrying that millisecond value.
C1_TimeoutGuard ==
  last.op \in {"Click.wait", "Wait.exists", "Wait.gone", "Wait.click"} =>
    LET ms == covert_to_millisecond(last.args.timeout)
    IN IF ms >= RpcTimeoutMs
       THEN IsApiError(last.out) /\ calls = <<>>
       ELSE /\ ~IsApiError(last.out)
            /\ Len(calls) >= 1
            /\ calls[1].method = GuardedRpc(last.op)
            /\ calls[1].args = <<SelectorDict(builder), ms>>

\* Wait.exists with a timeout equal to the RPC timeout: rejected, no RPC.
C1_Witness ==
  /\ last.op = "Wait.exists"
  /\ covert_to_millisecond(last.args.timeout) = RpcTimeoutMs
  /\ IsApiError(last.out)
  /\ calls = <<>>

\* C2: Wait.exists and Wait.gone below the ceiling issue exactly one polling
\* RPC; a true answer is returned as True; on a false answer they raise
\* UiObjectSearchError exactly when the builder's flag or the per-call
\* raise_error is set, and return False otherwise.
C2_WaitOutcome ==
  (/\ last.op \in {"Wait.exists", "Wait.gone"}
   /\ covert_to_millisecond(last.args.timeout) < RpcTimeoutMs) =>
    /\ Len(calls) = 1
    /\ calls[1].method = GuardedRpc(last.op)
    /\ last.args.resp = "T" => last.out = Return(TRUE)
    /\ last.args.resp = "F" =>
         IF builder.raise_error \/ last.args.raise_error
         THEN IsSearchError(last.out)
         ELSE last.out = Return(FALSE)

\* The sticky flag alone makes a failed Wait.exists raise.
C2_Witness ==
  /\ last.op = "Wait.exists"
  /\ last.args.resp = "F"
  /\ builder.raise_error
  /\ ~last.args.raise_error
  /\ IsSearchError(last.out)
  /\ Len(calls) = 1

\* The message of the object-search error the check under an assert raises.
OriginalMsg(op) ==
  CASE op = "assert_exists" ->
         <<"Not found Selector", SelectorDict(handles[last.h])>>
    [] op = "Wait.assert_exists" ->
         <<"Not found Selector", SelectorDict(builder), "over",
           covert_to_millisecond(last.args.timeout), "ms">>
    [] op = "Wait.assert_gone" ->
         <<"Still found Selector", SelectorDict(builder), "over",
           covert_to_millisecond(last.args.timeout), "ms">>

\* An assert whose check ran: the handle's always, a wait's below the ceiling.
AssertRan ==
  \/ last.op = "assert_exists"
  \/ /\ last.op \in {"Wait.assert_exists", "Wait.assert_gone"}
     /\ covert_to_millisecond(last.args.timeout) < RpcTimeoutMs

\* C3: whatever the sticky flag, an assert wrapper whose check fails raises
\* UiObjectSearchError with exactly the caller's message and the check's own
\* object-search error as its cause; one whose check succeeds returns None.
C3_AssertRewrap ==
  AssertRan =>
    /\ last.args.resp = "F" =>
         /\ IsSearchError(last.out)
         /\ last.out.msg = last.args.error_msg
         /\ last.out.cause.error = "UiObjectSearchError"
         /\ last.out.cause.msg = OriginalMsg(last.op)
    /\ last.args.resp = "T" => last.out = ReturnNone

\* Wait.assert_gone fails on a builder whose sticky flag is unset.
C3_Witness ==
  /\ last.op = "Wait.assert_gone"
  /\ last.args.resp = "F"
  /\ ~builder.raise_error
  /\ IsSearchError(last.out)
  /\ last.out.msg = <<"custom message">>
  /\ last.out.cause.error = "UiObjectSearchError"

\* C4: after any sequence of queries, navigation calls, builder accesses and
\* assert_exists calls, every handle's raise flag and selector are those it
\* was constructed with.
C4_HandleUnchanged ==
  \A i \in DOMAIN handles :
    /\ handles[i].raise_error = ctor[i].raise_error
    /\ heap[handles[i].selector] = ctor[i].selector

\* assert_exists on a handle whose flag is unset, left by a failure that the
\* remote exists call raised, and the flag is unset again.
C4_Witness ==
  /\ last.op = "assert_exists"
  /\ last.out.kind = "raise"
  /\ last.out.error = "TransportError"
  /\ ~ctor[last.h].raise_error
  /\ ~handles[last.h].raise_error

\* C5: a navigation call issues no RPC and returns a new handle over a new
\* selector object holding the parent's steps and one more (the tag and the
\* criteria); no handle's selector ever differs from the one it was
\* constructed with, and no two handles share a selector object.
C5_CopyThenAppend ==
  /\ \A i \in DOMAIN handles : heap[handles[i].selector] = ctor[i].selector
  /\ \A i, j \in DOMAIN handles : i # j => handles[i].selector # handles[j].selector
  /\ last.op \in Tags =>
       /\ calls = <<>>
       /\ last.args.new = Len(handles)
       /\ heap[handles[last.args.new].selector] =
            Append(ctor[last.h].selector,
                   [tag |-> last.op, criteria |-> last.args.kwargs])
       /\ handles[last.args.new].raise_error = handles[last.h].raise_error

\* Handles 2 and 3 branch from the root, then handle 2 is navigated from:
\* handle 3 and the root still hold their own steps.
C5_Witness ==
  /\ Len(handles) = 4
  /\ last.op \in Tags
  /\ last.h = 2
  /\ Len(ctor[2].selector) = Len(ctor[1].selector) + 1
  /\ Len(ctor[3].selector) = Len(ctor[1].selector) + 1
  /\ ctor[2].selector # ctor[3].selector
  /\ Len(heap[handles[4].selector]) = Len(ctor[1].selector) + 2
  /\ heap[handles[3].selector] = ctor[3].selector

\* The hold time a click carries: the deprecated timeout if given, else the
\* duration, else none; in milliseconds.
ExpectedHold(a) ==
  IF a.timeout # None THEN Some(covert_to_millisecond(Val(a.timeout)))
  ELSE IF a.duration # None THEN Some(covert_to_millisecond(Val(a.duration)))
  ELSE None

\* C6: a click with exactly one of x and y raises ApiError with no RPC; with
\* both it issues one clickObjPoint with x and y, with neither one clickObj;
\* the RPC carries the timeout if given, else the duration, else none.
C6_ClickDispatch ==
  last.op = "Click.__call__" =>
    LET a == last.args
    IN IF (a.x = None) # (a.y = None)
       THEN IsApiError(last.out) /\ calls = <<>>
       ELSE /\ Len(calls) = 1
            /\ IF a.x # None
               THEN /\ calls[1].method = "clickObjPoint"
                    /\ calls[1].args =
                         <<SelectorDict(builder), Val(a.x), Val(a.y), ExpectedHold(a)>>
               ELSE /\ calls[1].method = "clickObj"
                    /\ calls[1].args = <<SelectorDict(builder), ExpectedHold(a)>>

\* A point click given both a duration and another timeout: the timeout is
\* what the RPC carries.
C6_Witness ==
  /\ last.op = "Click.__call__"
  /\ last.args.x # None /\ last.args.y # None
  /\ last.args.timeout # None /\ last.args.duration # None
  /\ last.args.timeout # last.args.duration
  /\ Len(calls) = 1
  /\ calls[1].method = "clickObjPoint"
  /\ calls[1].args[4] = Some(covert_to_millisecond(Val(last.args.timeout)))

\* The one RPC the current sub-builder issues, with its bound configuration.
ToCall(method, middle) ==
  <<Call(method, <<SelectorDict(to)>> \o middle \o <<to.margin, to.percent>>)>>

\* C7: a scroll sub-builder call has four accepted shapes, each issuing one
\* RPC: percent alone (speed optional) a fixed-distance scroll; criteria
\* alone a scroll-until with the criteria; a target alone a scroll-until
\* with the target's selector; nothing a scroll-to-end.  Anything else
\* raises ApiError with no RPC.
C7_ScrollShapes ==
  last.op = "Scroll._To.__call__" =>
    LET a == last.args
    IN IF a.percent # None /\ a.target = None /\ a.kwargs = {}
       THEN calls = ToCall("scroll", <<to.direction, Val(a.percent), a.speed>>)
       ELSE IF a.kwargs # {} /\ a.percent = None /\ a.speed = None /\ a.target = None
       THEN calls = ToCall("scrollUntil", <<a.kwargs, to.direction>>)
       ELSE IF a.target # None /\ a.percent = None /\ a.speed = None /\ a.kwargs = {}
       THEN calls = ToCall("scrollUntil",
                           <<to_dict(heap[Val(a.target).selector]), to.direction>>)
       ELSE IF a.percent = None /\ a.speed = None /\ a.target = None /\ a.kwargs = {}
       THEN calls = ToCall("scrollUntilFinished", <<to.direction>>)
       ELSE IsApiError(last.out) /\ calls = <<>>

\* percent together with a target: rejected, no RPC.
C7_Witness ==
  /\ last.op = "Scroll._To.__call__"
  /\ last.args.percent = Some(50)
  /\ last.args.target # None
  /\ last.args.kwargs = {}
  /\ IsApiError(last.out)
  /\ calls = <<>>

\* C8: a fling sub-builder call raises ApiError with no RPC for any percent
\* but 0 and issues one fling RPC for 0; a swipe one raises for a percent
\* outside 0..100 and issues one swipeObj RPC with the percent within; the
\* RPC carries the sub-builder's direction and margin / percent.
C8_GestureRules ==
  last.op = "Gesture._To.__call__" =>
    LET a == last.args
    IN /\ to.action \in {"fling", "swipe"}
       /\ to.action = "fling" =>
            IF a.percent # 0
            THEN IsApiError(last.out) /\ calls = <<>>
            ELSE calls = ToCall("fling", <<to.direction, a.speed>>)
       /\ to.action = "swipe" =>
            IF a.percent < 0 \/ a.percent > 100
            THEN IsApiError(last.out) /\ calls = <<>>
            ELSE calls = ToCall("swipeObj", <<to.direction, a.percent, a.speed>>)

\* fling with a percent other than 0 on a configured builder: rejected.
C8_Witness ==
  /\ last.op = "Gesture._To.__call__"
  /\ to.action = "fling"
  /\ to.margin # None
  /\ last.args.percent = 50
  /\ IsApiError(last.out)
  /\ calls = <<>>

\* The RPC methods that carry the margin and percent configuration last.
ConfiguredRpcs == {"fling", "swipeObj", "scroll", "scrollUntil", "scrollUntilFinished"}

\* C9: a configurator call given both a margin and a percent raises
\* ApiError; the builder never holds both, and neither does a directional
\* sub-builder or an RPC call.
C9_MarginXorPercent ==
  /\ (/\ last.op \in {"Gesture.__call__", "Scroll.__call__"}
      /\ last.args.margin # None
      /\ last.args.percent # None) => IsApiError(last.out)
  /\ ~(builder.margin # None /\ builder.percent # None)
  /\ ~(to.margin # None /\ to.percent # None)
  /\ \A k \in DOMAIN calls :
       calls[k].method \in ConfiguredRpcs =>
         LET a == calls[k].args
         IN ~(a[Len(a) - 1] # None /\ a[Len(a)] # None)

\* A rejected configurator call on a builder that holds a margin already.
C9_Witness ==
  /\ last.op = "Scroll.__call__"
  /\ last.args.margin # None
  /\ last.args.percent # None
  /\ IsApiError(last.out)
  /\ builder.margin # None
  /\ builder.percent = None

\* C10: a drag with x and y and no criteria issues one dragObj; with neither
\* and criteria one dragObjToObj; anything else raises ApiError, no RPC.
C10_DragDestination ==
  last.op \in {"Drag.to", "Drag.__call__"} =>
    LET a == last.args
    IN IF a.x # None /\ a.y # None /\ a.kwargs = {}
       THEN /\ Len(calls) = 1
            /\ calls[1].method = "dragObj"
            /\ calls[1].args = <<SelectorDict(builder), Val(a.x), Val(a.y), a.speed>>
       ELSE IF a.x = None /\ a.y = None /\ a.kwargs # {}
       THEN /\ Len(calls) = 1
            /\ calls[1].method = "dragObjToObj"
            /\ calls[1].args =
                 <<SelectorDict(builder), to_dict(BySelector(a.kwargs)), a.speed>>
       ELSE IsApiError(last.out) /\ calls = <<>>

\* Coordinates together with criteria: rejected, no RPC.
C10_Witness ==
  /\ last.op = "Drag.to"
  /\ last.args.x # None /\ last.args.y # None
  /\ last.args.kwargs # {}
  /\ IsApiError(last.out)
  /\ calls = <<>>

\* C11 as stated: Wait.click never raises, for every timeout and either
\* flag, whatever the service answers: it issues the waitForExists RPC, then
\* clickObj only if the wait was true, and returns False when it was not.
C11_NeverRaises ==
  (/\ last.op = "Wait.click"
   /\ last.args.resp # "X"
   /\ ~(last.args.resp = "T" /\ last.args.resp2 = "X")) =>
    /\ last.out.kind = "return"
    /\ Len(calls) >= 1
    /\ calls[1].method = "waitForExists"
    /\ last.args.resp = "F" => (last.out = Return(FALSE) /\ Len(calls) = 1)
    /\ last.args.resp = "T" => (Len(calls) = 2 /\ calls[2].method = "clickObj")

\* C11, amended: Wait.click never raises UiObjectSearchError, whatever the
\* sticky flag; a timeout at or above the RPC timeout raises ApiError with no
\* RPC; below it the first RPC is waitForExists, clickObj follows exactly
\* when the wait answered true and its answer is returned, and a wait that
\* answered false gives False with no click.  A failure that an RPC raises
\* itself passes through.
C11_WaitClick ==
  last.op = "Wait.click" =>
    LET a == last.args
        ms == covert_to_millisecond(a.timeout)
    IN /\ ~IsSearchError(last.out)
       /\ IF ms >= RpcTimeoutMs
          THEN IsApiError(last.out) /\ calls = <<>>
          ELSE /\ Len(calls) >= 1
               /\ calls[1].method = "waitForExists"
               /\ calls[1].args = <<SelectorDict(builder), ms>>
               /\ a.resp = "T" =>
                    /\ Len(calls) = 2
                    /\ calls[2].method = "clickObj"
                    /\ calls[2].args = <<SelectorDict(builder)>>
                    /\ a.resp2 # "X" => last.out = Return(AsBool(a.resp2))
                    /\ a.resp2 = "X" => last.out = TransportError
               /\ a.resp = "F" => (Len(calls) = 1 /\ last.out = Return(FALSE))
               /\ a.resp = "X" => (Len(calls) = 1 /\ last.out = TransportError)

\* The element is not found by a builder whose sticky flag is set: False.
C11_Witness ==
  /\ last.op = "Wait.click"
  /\ builder.raise_error
  /\ covert_to_millisecond(last.args.timeout) < RpcTimeoutMs
  /\ last.args.resp = "F"
  /\ last.out = Return(FALSE)
  /\ Len(calls) = 1

\* C12: scroll.<direction>.click with no criterion raises ApiError with no
\* RPC; otherwise the first RPC is scrollUntil for the criteria; exactly when
\* it answered true one clickObj RPC on the criteria follows and its answer
\* is returned; when it answered false the result is False, nothing is
\* raised and no click is issued.
C12_ScrollClick ==
  last.op = "Scroll._To.click" =>
    LET a == last.args
    IN IF a.kwargs = {}
       THEN IsApiError(last.out) /\ calls = <<>>
       ELSE /\ Len(calls) >= 1
            /\ calls[1].method = "scrollUntil"
            /\ <<calls[1]>> = ToCall("scrollUntil", <<a.kwargs, to.direction>>)
            /\ a.resp = "T" =>
                 /\ Len(calls) = 2
                 /\ calls[2].method = "clickObj"
                 /\ calls[2].args = <<a.kwargs>>
                 /\ a.resp2 # "X" => last.out = Return(AsBool(a.resp2))
            /\ a.resp = "F" => (Len(calls) = 1 /\ last.out = Return(FALSE))
            /\ a.resp = "X" => Len(calls) = 1

\* C13: bottomright and topleft issue getVisibleBounds first; with no bounds
\* they return False, raise nothing and issue no click; otherwise exactly one
\* click RPC follows as the second call, at (right, bottom) for bottomright
\* and at (left, top) for topleft.
C13_CornerClicks ==
  last.op \in {"Click.bottomright", "Click.topleft"} =>
    LET a == last.args
        corner == IF last.op = "Click.bottomright"
                  THEN <<Bounds.right, Bounds.bottom>>
                  ELSE <<Bounds.left, Bounds.top>>
    IN /\ Len(calls) >= 1
       /\ calls[1].method = "getVisibleBounds"
       /\ calls[1].args = <<SelectorDict(builder)>>
       /\ a.resp = "F" => (Len(calls) = 1 /\ last.out = Return(FALSE))
       /\ a.resp = "T" =>
            /\ Len(calls) = 2
            /\ calls[2].method = "click"
            /\ calls[2].args = corner
            /\ a.resp2 # "X" => last.out = Return(AsBool(a.resp2))

\* bottomright resolved the bounds and clicked at (right, bottom).
C13_Witness ==
  /\ last.op = "Click.bottomright"
  /\ last.args.resp = "T"
  /\ Len(calls) = 2
  /\ calls[2].method = "click"
  /\ calls[2].args = <<Bounds.right, Bounds.bottom>>
  /\ last.out = Return(TRUE)

\* C14: a Click call whose hold time (duration, or the deprecated timeout),
\* in milliseconds, is at or above the RPC timeout raises ApiError before any
\* RPC call is made.
C14_HoldGuard ==
  (/\ last.op = "Click.__call__"
   /\ ExpectedHold(last.args) # None
   /\ Val(ExpectedHold(last.args)) >= RpcTimeoutMs) =>
    /\ IsApiError(last.out)
    /\ calls = <<>>

\* C15: every handle derived by navigation from the root handle, and every
\* _Wait builder obtained from one, carries the root's raise flag f; an exists
\* query, or a Wait.exists / Wait.gone without the per-call override, raises
\* UiObjectSearchError exactly when f is set and the query or wait failed:
\* never when f is unset, always on a failure when f is set.
C15_StrictInherited ==
  LET f == ctor[1].raise_error
  IN /\ \A i \in DOMAIN handles :
          handles[i].raise_error = f /\ ctor[i].raise_error = f
     /\ builder.kind = "wait" => builder.raise_error = f
     /\ last.op = "exists" =>
          (IsSearchError(last.out) <=> (f /\ last.args.resp = "F"))
     /\ (last.op \in {"Wait.exists", "Wait.gone"} /\ ~last.args.raise_error) =>
          (IsSearchError(last.out) <=>
             /\ f
             /\ last.args.resp = "F"
             /\ covert_to_millisecond(last.args.timeout) < RpcTimeoutMs)

\* A wait for disappearance without the override fails on the builder of a
\* handle two navigation steps below a strict root, and raises.
C15_Witness ==
  /\ ctor[1].raise_error
  /\ Len(handles) = 3
  /\ builder.kind = "wait"
  /\ builder.selector = handles[3].selector
  /\ Len(heap[builder.selector]) = 3
  /\ last.op = "Wait.gone"
  /\ ~last.args.raise_error
  /\ IsSearchError(last.out)

====
